---- MODULE Spec2Model ----
(***************************************************************************)
(* Model of the Raycast "My GitHub Repositories" command                   *)
(* (src/src/github-repositories.tsx, second revision, lines 189-429):      *)
(* the access ledger and the repository cache kept in LocalStorage, the    *)
(* ranking function sortRepositoriesByAccess, the loadRepositories effect  *)
(* and the handleRepositoryClick handler.                                  *)
(*                                                                         *)
(* Every await of the source is one step of the model: the awaited call    *)
(* takes effect and the code up to the next await runs in the same step.   *)
(*                                                                         *)
(* Specifications:                                                         *)
(*   Spec            a run of the command: one load, overlapping actions   *)
(*   SpecSequential  the same with user actions that do not overlap        *)
(*   SpecColdStart   a first run whose fetch maps and sorts a response     *)
(*   SpecFailure     a load whose fetch throws                             *)
(*   SpecLive        SpecSequential with every awaited call returning      *)
(*   SpecRank        sortRepositoriesByAccess on its own                   *)
(***************************************************************************)
EXTENDS Integers, Sequences, FiniteSets, TLC

(***************************************************************************)
(* Program constants                                                       *)
(***************************************************************************)
STORAGE_KEY == "repository-access-times"
CACHE_KEY == "repositories-cache"
CACHE_TIMESTAMP_KEY == "repositories-cache-timestamp"
CACHE_DURATION == 5 * 60 * 1000

(***************************************************************************)
(* Bounds of the model                                                     *)
(***************************************************************************)
\* number of overlapping handleRepositoryClick invocations
MaxClicks == 2
\* number of instants after StartTime at which Date.now() is read
MaxTicks == 1
\* largest usageScore of the repositories of the ranking specification
MaxScore == 2
\* largest access timestamp of the ranking specification
MaxRankTime == 2
\* largest stargazers_count of the repositories of an API response
MaxStars == 2

\* repository ids (repo.id.toString() of the GitHub API)
Ids == {"1", "2", "3"}

(***************************************************************************)
(* Number <-> decimal string, as Date.now().toString(), JSON.stringify of  *)
(* a number, parseInt(s, 10) and JSON.parse of a number do it.  A string   *)
(* of digits is a sequence of 0..9.                                        *)
(***************************************************************************)
RECURSIVE toString(_)
toString(n) ==
  IF n < 10 THEN <<n>> ELSE Append(toString(n \div 10), n % 10)

RECURSIVE parseInt(_)
parseInt(s) ==
  IF Len(s) = 1 THEN s[1]
  ELSE parseInt(SubSeq(s, 1, Len(s) - 1)) * 10 + s[Len(s)]

(***************************************************************************)
(* sortRepositoriesByAccess: [...repos].sort(comparator).                  *)
(* Array.prototype.sort is stable; it is modelled as a stable insertion    *)
(* sort driven by the comparator of the source.                            *)
(***************************************************************************)
\* accessTimes[id] || 0
TimeOrZero(accessTimes, id) ==
  IF id \in DOMAIN accessTimes THEN accessTimes[id] ELSE 0

\* variant: the two keys blended into one sum
compareBlended(a, b, accessTimes) ==
  LET aTime == TimeOrZero(accessTimes, a.id)
      bTime == TimeOrZero(accessTimes, b.id)
  IN  (bTime + b.usageScore) - (aTime + a.usageScore)

compare(a, b, accessTimes) ==
  LET aTime == TimeOrZero(accessTimes, a.id)
      bTime == TimeOrZero(accessTimes, b.id)
  IN  IF aTime # bTime THEN bTime - aTime
      ELSE b.usageScore - a.usageScore

\* variant: x goes before the elements that compare equal to it (not stable)
InsertSortedUnstable(sorted, x, accessTimes) ==
  LET later == {k \in 1..Len(sorted) : compare(sorted[k], x, accessTimes) >= 0}
      pos == IF later = {} THEN Len(sorted) + 1
             ELSE CHOOSE k \in later : \A j \in later : k <= j
  IN  SubSeq(sorted, 1, pos - 1) \o <<x>> \o SubSeq(sorted, pos, Len(sorted))

\* variant: x takes the place of the element it should go before
InsertSortedOverwriting(sorted, x, accessTimes) ==
  LET later == {k \in 1..Len(sorted) : compare(sorted[k], x, accessTimes) > 0}
      pos == IF later = {} THEN Len(sorted) + 1
             ELSE CHOOSE k \in later : \A j \in later : k <= j
  IN  SubSeq(sorted, 1, pos - 1) \o <<x>> \o SubSeq(sorted, pos + 1, Len(sorted))

\* x goes before the first element that the comparator puts after x
InsertSorted(sorted, x, accessTimes) ==
  LET later == {k \in 1..Len(sorted) : compare(sorted[k], x, accessTimes) > 0}
      pos == IF later = {} THEN Len(sorted) + 1
             ELSE CHOOSE k \in later : \A j \in later : k <= j
  IN  SubSeq(sorted, 1, pos - 1) \o <<x>> \o SubSeq(sorted, pos, Len(sorted))

RECURSIVE SortPrefix(_, _, _)
SortPrefix(repos, n, accessTimes) ==
  IF n = 0 THEN <<>>
  ELSE InsertSorted(SortPrefix(repos, n - 1, accessTimes), repos[n], accessTimes)

sortRepositoriesByAccess(repos, accessTimes) ==
  SortPrefix(repos, Len(repos), accessTimes)

(***************************************************************************)
(* JSON.stringify / JSON.parse of the two persisted payloads.  A number    *)
(* is written as its decimal string; the text of an object is the set of   *)
(* its "key":digits members, the text of an array the sequence of the      *)
(* texts of its elements.                                                  *)
(***************************************************************************)
stringifyAccessTimes(accessTimes) ==
  {<<id, toString(accessTimes[id])>> : id \in DOMAIN accessTimes}

parseAccessTimes(text) ==
  [id \in {m[1] : m \in text} |->
     parseInt((CHOOSE m \in text : m[1] = id)[2])]

stringifyRepositories(repos) ==
  [i \in 1..Len(repos) |->
     [id |-> repos[i].id, owner |-> repos[i].owner,
      usageScore |-> toString(repos[i].usageScore)]]

parseRepositories(text) ==
  [i \in 1..Len(text) |->
     [id |-> text[i].id, owner |-> text[i].owner,
      usageScore |-> parseInt(text[i].usageScore)]]

\* values of LocalStorage.getItem: undefined, a payload that is not valid
\* JSON (JSON.parse throws), or a text written by the program
Absent == [kind |-> "absent"]
Corrupt == [kind |-> "corrupt"]
Text(t) == [kind |-> "text", text |-> t]

\* message of the SyntaxError thrown by JSON.parse
ParseErrorMessage == "Unexpected token in JSON"

(***************************************************************************)
(* handleGitHubError (src/src/lib/github-client.ts).  A raw failure is     *)
(* [isError, message, includes]: includes is the set of the patterns that  *)
(* message.includes(pattern) finds.                                        *)
(***************************************************************************)
\* variant: the rate limit is looked for before the credentials
handleGitHubErrorRateLimitFirst(e) ==
  IF e.isError THEN
    IF "rate limit" \in e.includes
      THEN "GitHub API rate limit exceeded. Please try again later."
    ELSE IF "Bad credentials" \in e.includes
      THEN "Invalid GitHub token. Please check your credentials."
    ELSE IF "ENOTFOUND" \in e.includes \/ "network" \in e.includes
      THEN "Unable to connect to GitHub. Please check your internet connection."
    ELSE IF "Resource protected by organization SAML enforcement" \in e.includes
      THEN "GitHub token is missing authorization for organizations that use SSO. Please re-authenticate to fix this."
    ELSE e.message
  ELSE "Unknown GitHub API error occurred"

handleGitHubError(e) ==
  IF e.isError THEN
    IF "Bad credentials" \in e.includes
      THEN "Invalid GitHub token. Please check your credentials."
    ELSE IF "rate limit" \in e.includes
      THEN "GitHub API rate limit exceeded. Please try again later."
    ELSE IF "ENOTFOUND" \in e.includes \/ "network" \in e.includes
      THEN "Unable to connect to GitHub. Please check your internet connection."
    ELSE IF "Resource protected by organization SAML enforcement" \in e.includes
      THEN "GitHub token is missing authorization for organizations that use SSO. Please re-authenticate to fix this."
    ELSE e.message
  ELSE "Unknown GitHub API error occurred"

\* failures of octokit.rest.repos.listForAuthenticatedUser
RawErrors ==
  { [isError |-> TRUE, message |-> "Bad credentials",
     includes |-> {"Bad credentials"}],
    [isError |-> TRUE, message |-> "API rate limit exceeded",
     includes |-> {"rate limit"}],
    [isError |-> TRUE, message |-> "getaddrinfo ENOTFOUND api.github.com",
     includes |-> {"ENOTFOUND"}],
    [isError |-> TRUE, message |-> "Not Found", includes |-> {}],
    [isError |-> FALSE, message |-> "", includes |-> {}] }

\* what a thrown value says: the text, and the patterns that
\* text.includes(pattern) finds in it
RawMessages ==
  { [text |-> "Not Found", includes |-> {}],
    [text |-> "Internal Server Error", includes |-> {}],
    [text |-> "Bad credentials", includes |-> {"Bad credentials"}],
    [text |-> "API rate limit exceeded for user ID 1",
     includes |-> {"rate limit"}],
    [text |-> "getaddrinfo ENOTFOUND api.github.com",
     includes |-> {"ENOTFOUND"}],
    [text |-> "network timeout at: https://api.github.com/user/repos",
     includes |-> {"network"}],
    [text |-> "Resource protected by organization SAML enforcement. You must grant your OAuth token access to this organization.",
     includes |-> {"Resource protected by organization SAML enforcement"}],
    [text |-> "Bad credentials (secondary rate limit)",
     includes |-> {"Bad credentials", "rate limit"}],
    [text |-> "rate limit: network is unreachable",
     includes |-> {"rate limit", "network"}],
    [text |-> "network error: getaddrinfo ENOTFOUND api.github.com",
     includes |-> {"ENOTFOUND", "network"}],
    [text |-> "network proxy: Resource protected by organization SAML enforcement",
     includes |-> {"network",
                   "Resource protected by organization SAML enforcement"}],
    [text |-> "Bad credentials. Resource protected by organization SAML enforcement",
     includes |-> {"Bad credentials",
                   "Resource protected by organization SAML enforcement"}] }

\* the values the try block of fetchRepositories can throw: an Error with
\* such a message, or a value that is not an Error (a string, an object)
RawFailures ==
  { [isError |-> b, message |-> m.text, includes |-> m.includes] :
      b \in BOOLEAN, m \in RawMessages }

\* no failure
NoFailure == [isError |-> FALSE, message |-> "", includes |-> {}]

\* the failures of the fetch in a run of the command
FetchErrors ==
  {e \in RawErrors : ~e.isError \/ "Bad credentials" \in e.includes}

\* failure of octokit.rest.users.getAuthenticated
UserErrorMessage == "Bad credentials"

(***************************************************************************)
(* The data of a run                                                       *)
(***************************************************************************)
\* no Date.now() yet
NoTime == 0 - 1

\* Date.now() when the command is opened
StartTime == 2 * CACHE_DURATION

\* the instants of a run: the start, one millisecond before the freshness
\* window has passed since the start, the millisecond it has passed, and
\* the milliseconds after that
Instant(k) ==
  IF k = 0 THEN StartTime
  ELSE IF k = 1 THEN StartTime + CACHE_DURATION - 1
  ELSE StartTime + CACHE_DURATION + (k - 2)

\* repo.owner?.login || ""
OwnerOf(id) == IF id = "1" THEN "me" ELSE IF id = "2" THEN "org" ELSE ""

Repo(id, score) == [id |-> id, owner |-> OwnerOf(id), usageScore |-> score]

\* results of fetchRepositories: sorted by usageScore, highest first
\* (src/src/services/repositories.ts line 84)
FetchResults ==
  { <<>>, <<Repo("1", 2), Repo("2", 1)>> }

(***************************************************************************)
(* calculateUsageScore and fetchRepositories                               *)
(* (src/src/services/repositories.ts).  A repository of the API response   *)
(* is [id, stargazers_count, updated_at, pushed_at], the times in          *)
(* milliseconds, pushed_at NoTime when the API gives null.  The real       *)
(* arithmetic is taken in whole points: Math.exp(-days / 30) * 100 is      *)
(* read off every 10 days and rounded.                                     *)
(***************************************************************************)
MS_PER_DAY == 1000 * 60 * 60 * 24
STAR_WEIGHT == 2

\* round(Math.exp(-d / 30) * 100) for d = 0, 10, 20, ... days
DecayTable == <<100, 72, 51, 37, 26, 19, 14, 10, 7, 5, 4, 3, 2, 1, 1, 1>>

\* Math.exp(-daysSince / 30) * 100
ExpDecay100(ms) ==
  LET daysSince == ms \div MS_PER_DAY
      k == daysSince \div 10
  IN  IF k + 1 \in DOMAIN DecayTable THEN DecayTable[k + 1] ELSE 0

\* variant: the stars do not enter the score
calculateUsageScoreRecencyOnly(stargazers_count, updated_at, pushed_at, now) ==
  ExpDecay100(now - updated_at) + ExpDecay100(now - pushed_at)

calculateUsageScore(stargazers_count, updated_at, pushed_at, now) ==
  LET stars == stargazers_count
      recencyScore == ExpDecay100(now - updated_at)
                        + ExpDecay100(now - pushed_at)
  IN  stars * STAR_WEIGHT + recencyScore

\* repositories.sort((a, b) => b.usageScore - a.usageScore), a stable sort
InsertByUsageScore(sorted, x) ==
  LET later == {k \in 1..Len(sorted) : x.usageScore - sorted[k].usageScore > 0}
      pos == IF later = {} THEN Len(sorted) + 1
             ELSE CHOOSE k \in later : \A j \in later : k <= j
  IN  SubSeq(sorted, 1, pos - 1) \o <<x>> \o SubSeq(sorted, pos, Len(sorted))

RECURSIVE SortByUsageScore(_, _)
SortByUsageScore(repos, n) ==
  IF n = 0 THEN <<>>
  ELSE InsertByUsageScore(SortByUsageScore(repos, n - 1), repos[n])

\* lines 63-86: map the response to Repository records, sort them
fetchRepositories(response, now) ==
  LET repositories ==
        [i \in 1..Len(response) |->
           LET repo == response[i]
               pushedAt == IF repo.pushed_at = NoTime THEN repo.updated_at
                           ELSE repo.pushed_at
           IN  [id |-> repo.id, owner |-> OwnerOf(repo.id),
                usageScore |-> calculateUsageScore(repo.stargazers_count,
                                 repo.updated_at, pushedAt, now)]]
  IN  SortByUsageScore(repositories, Len(repositories))

\* updated_at and pushed_at of a repository of a response: active when the
\* command is opened, or 10 days before; pushed_at null for a repository
\* that was never pushed to
Activities ==
  { [updated_at |-> StartTime, pushed_at |-> NoTime],
    [updated_at |-> StartTime, pushed_at |-> StartTime - 10 * MS_PER_DAY],
    [updated_at |-> StartTime - 10 * MS_PER_DAY, pushed_at |-> NoTime] }

\* responses of octokit.rest.repos.listForAuthenticatedUser: up to three
\* repositories with ids of their own
ApiResponses ==
  UNION { { [i \in 1..n |-> [id |-> ids[i], stargazers_count |-> stars[i],
                             updated_at |-> activity[i].updated_at,
                             pushed_at |-> activity[i].pushed_at]] :
              ids \in {f \in [1..n -> Ids] :
                         \A i, j \in 1..n : i # j => f[i] # f[j]},
              stars \in [1..n -> 0..MaxStars],
              activity \in [1..n -> Activities] } :
          n \in 0..Cardinality(Ids) }

\* what previous runs left in LocalStorage: the ledger, the cached
\* repositories and the time of the write of the cache
SomeLedger == Text(stringifyAccessTimes([id \in {"2"} |-> StartTime - 20]))

\* fetchedAt is the Date.now() of the write of the cache, NoTime if none
Stored(ledger, repos, fetchedAt) ==
  [store |-> [k \in {STORAGE_KEY, CACHE_KEY, CACHE_TIMESTAMP_KEY} |->
                IF k = STORAGE_KEY THEN ledger
                ELSE IF k = CACHE_KEY THEN repos
                ELSE IF fetchedAt = NoTime THEN Absent
                ELSE Text(toString(fetchedAt))],
   at |-> fetchedAt]

StoredStates ==
  { \* first run
    Stored(Absent, Absent, NoTime),
    \* payloads that are not valid JSON
    Stored(Corrupt, Absent, NoTime),
    Stored(SomeLedger, Corrupt, StartTime - 1),
    \* an empty repository list, cached a millisecond ago
    Stored(SomeLedger, Text(stringifyRepositories(<<>>)), StartTime - 1),
    \* a cache in the last millisecond of the freshness window
    Stored(SomeLedger,
           Text(stringifyRepositories(<<Repo("2", 4), Repo("1", 1)>>)),
           StartTime - CACHE_DURATION + 1),
    \* a cache whose age is the freshness window
    Stored(Absent,
           Text(stringifyRepositories(<<Repo("3", 2), Repo("1", 1)>>)),
           StartTime - CACHE_DURATION) }

\* JavaScript null
null == "null"
NullRepos == [isNull |-> TRUE, value |-> <<>>]
SomeRepos(r) == [isNull |-> FALSE, value |-> r]

(***************************************************************************)
(* State                                                                   *)
(***************************************************************************)
VARIABLES
  LocalStorage,        \* key -> Absent | Corrupt | Text(_)
  clock,               \* Date.now()
  ticks,               \* clock = Instant(ticks)
  \* useState of MyRepositoriesCommand; currentUser, which only selects the
  \* owner badge of an item, and the accessTimes state, which is never read,
  \* are left out
  repositories, sortedRepositories, isLoading, error,
  \* loadRepositories: position and locals
  loadPc, times, cachedRepos, cacheValid, fetchedRepos,
  timestampText,       \* Date.now().toString() of line 232, until it is stored
  \* handleRepositoryClick invocations: position, argument, the repositories
  \* its closure holds, the accessTimes local of updateAccessTime
  clickPc, clickRepoId, clickRepositories, clickAccessTimes,
  clicksStarted,       \* number of invocations so far
  lastClicked,         \* repoId of the invocation that returned last
  \* history
  fetchCalls,          \* number of calls of fetchRepositories
  fetchOutcome,        \* how fetchRepositories ended: "pending", "ok" or "failed"
  fetchMessage,        \* the message of the Error fetchRepositories threw
  cacheShown,          \* the cached repositories were displayed (line 276-278)
  readFailed,          \* JSON.parse of a persisted payload threw in the load
  stampedAt,           \* Date.now() as line 232 read it
  fetchedAt,           \* Date.now() of the cache timestamp that is stored
  cacheAtStart,        \* LocalStorage[CACHE_KEY] when the load began
  timestampAtStart,    \* LocalStorage[CACHE_TIMESTAMP_KEY] when it began
  \* React
  loadCalls,           \* number of calls of loadRepositories by the effect
  rendersInFlight,     \* the component has rendered with the fetch in flight
  \* listForAuthenticatedUser: its response (SpecColdStart) and the value
  \* its failure throws (SpecFailure)
  apiRepos, apiError,
  \* the ranking specification (SpecRank)
  rankRepos, rankTimes, rankOut, rankDone

storeVars == <<LocalStorage, clock, ticks>>
uiVars == <<repositories, sortedRepositories, isLoading, error>>
loadVars == <<loadPc, times, cachedRepos, cacheValid, fetchedRepos,
              timestampText>>
clickVars == <<clickPc, clickRepoId, clickRepositories, clickAccessTimes,
               clicksStarted, lastClicked>>
histVars == <<fetchCalls, fetchOutcome, fetchMessage, cacheShown,
              readFailed, stampedAt, fetchedAt, cacheAtStart,
              timestampAtStart>>
renderVars == <<loadCalls, rendersInFlight>>
apiVars == <<apiRepos, apiError>>
rankVars == <<rankRepos, rankTimes, rankOut, rankDone>>
vars == <<storeVars, uiVars, loadVars, clickVars, histVars, renderVars,
          apiVars, rankVars>>

Clicks == 1..MaxClicks

\* the state right after the first render, when the effect has called
\* loadRepositories and it awaits getAccessTimes (lines 259-271)
InitCommand ==
  /\ clock = StartTime
  /\ ticks = 0
  /\ repositories = <<>>
  /\ sortedRepositories = <<>>
  /\ isLoading = TRUE
  /\ error = null
  /\ loadPc = "getAccessTimes"
  /\ times = <<>>
  /\ cachedRepos = NullRepos
  /\ cacheValid = FALSE
  /\ fetchedRepos = <<>>
  /\ timestampText = <<>>
  /\ clickPc = [i \in Clicks |-> "idle"]
  /\ clicksStarted = 0
  /\ lastClicked = ""
  /\ clickRepoId = [i \in Clicks |-> ""]
  /\ clickRepositories = [i \in Clicks |-> <<>>]
  /\ clickAccessTimes = [i \in Clicks |-> <<>>]
  /\ fetchCalls = 0
  /\ fetchOutcome = "pending"
  /\ fetchMessage = null
  /\ cacheShown = FALSE
  /\ readFailed = FALSE
  /\ stampedAt = NoTime
  /\ loadCalls = 1
  /\ rendersInFlight = FALSE

InitRankIdle ==
  /\ rankRepos = <<>>
  /\ rankTimes = <<>>
  /\ rankOut = <<>>
  /\ rankDone = FALSE

Init ==
  /\ InitCommand
  /\ InitRankIdle
  /\ apiRepos = <<>>
  /\ apiError = NoFailure
  /\ \E stored \in StoredStates :
       /\ LocalStorage = stored.store
       /\ fetchedAt = stored.at
       /\ cacheAtStart = stored.store[CACHE_KEY]
       /\ timestampAtStart = stored.store[CACHE_TIMESTAMP_KEY]

(***************************************************************************)
(* LocalStorage accessors (lines 213-240)                                  *)
(***************************************************************************)
\* getAccessTimes: stored ? JSON.parse(stored) : {}   (throws on Corrupt)
getAccessTimes ==
  IF LocalStorage[STORAGE_KEY] = Absent THEN <<>>
  ELSE parseAccessTimes(LocalStorage[STORAGE_KEY].text)

\* getCachedRepositories: if (!cached) return null; return JSON.parse(cached)
getCachedRepositories ==
  IF LocalStorage[CACHE_KEY] = Absent THEN NullRepos
  ELSE SomeRepos(parseRepositories(LocalStorage[CACHE_KEY].text))

\* variant: age <= CACHE_DURATION
isCacheValidInclusive ==
  IF LocalStorage[CACHE_TIMESTAMP_KEY] = Absent THEN FALSE
  ELSE LET age == clock - parseInt(LocalStorage[CACHE_TIMESTAMP_KEY].text)
       IN  age <= CACHE_DURATION

\* isCacheValid: age < CACHE_DURATION, false without a timestamp
isCacheValid ==
  IF LocalStorage[CACHE_TIMESTAMP_KEY] = Absent THEN FALSE
  ELSE LET age == clock - parseInt(LocalStorage[CACHE_TIMESTAMP_KEY].text)
       IN  age < CACHE_DURATION

(***************************************************************************)
(* React renders the component again after a step that changed its state   *)
(* (lines 258-427); every render evaluates useEffect(..., []) of lines     *)
(* 268-334 again.                                                          *)
(***************************************************************************)
\* variant: the effect has no dependency array and runs after every render
EffectDueEveryRender == TRUE

\* the dependency array [] of line 334 never changes: after the first
\* render the effect does not run again
EffectDue == FALSE

\* the render that follows the step, and the effect's call of
\* loadRepositories when it is due
AfterRender ==
  /\ loadCalls' = IF uiVars' # uiVars /\ EffectDue THEN loadCalls + 1
                  ELSE loadCalls
  /\ rendersInFlight' = ( \/ rendersInFlight
                          \/ ( /\ uiVars' # uiVars
                               /\ loadPc' = "fetchRepositories" ) )

(***************************************************************************)
(* loadRepositories (lines 269-331)                                        *)
(***************************************************************************)
\* variant: no error is set once the cached repositories are displayed
CatchUnlessCacheShown(errorMessage) ==
  /\ error' = IF cacheShown THEN error ELSE errorMessage
  /\ loadPc' = "showToast"

\* catch (err): setError(errorMessage); await showToast(...)  (lines 319-327)
Catch(errorMessage) ==
  /\ error' = errorMessage
  /\ loadPc' = "showToast"

\* variant: the finally block leaves the loading indicator as it is
FinallyKeepsLoading ==
  /\ isLoading' = isLoading
  /\ loadPc' = "done"

\* finally: setIsLoading(false)  (lines 328-330)
Finally ==
  /\ isLoading' = FALSE
  /\ loadPc' = "done"

\* line 271: const times = await getAccessTimes()
LoadGetAccessTimes ==
  /\ loadPc = "getAccessTimes"
  /\ IF LocalStorage[STORAGE_KEY] = Corrupt
       THEN /\ Catch(ParseErrorMessage)
            /\ readFailed' = TRUE
            /\ UNCHANGED times
       ELSE /\ times' = getAccessTimes
            /\ loadPc' = "getCachedRepositories"
            /\ UNCHANGED <<error, readFailed>>
  /\ UNCHANGED <<storeVars, repositories, sortedRepositories, isLoading,
                 cachedRepos, cacheValid, fetchedRepos, timestampText,
                 clickVars, fetchCalls, fetchOutcome, fetchMessage,
                 cacheShown, stampedAt, fetchedAt, cacheAtStart,
                 timestampAtStart, apiVars, rankVars>>
  /\ AfterRender

\* lines 274-281: read the cache and display it when it is not empty
LoadGetCachedRepositories ==
  /\ loadPc = "getCachedRepositories"
  /\ IF LocalStorage[CACHE_KEY] = Corrupt
       THEN /\ Catch(ParseErrorMessage)
            /\ readFailed' = TRUE
            /\ UNCHANGED <<cachedRepos, repositories, sortedRepositories,
                           cacheShown>>
       ELSE LET cached == getCachedRepositories
            IN  /\ cachedRepos' = cached
                /\ UNCHANGED <<error, readFailed>>
                /\ IF ~cached.isNull /\ Len(cached.value) > 0
                     THEN /\ repositories' = cached.value
                          /\ sortedRepositories' =
                               sortRepositoriesByAccess(cached.value, times)
                          /\ cacheShown' = TRUE
                          /\ loadPc' = IF cached.value[1].owner # ""
                                         THEN "getAuthenticatedCached"
                                         ELSE "isCacheValidCached"
                     ELSE /\ loadPc' = "isCacheValid"
                          /\ UNCHANGED <<repositories, sortedRepositories,
                                         cacheShown>>
  /\ UNCHANGED <<storeVars, isLoading, times, cacheValid, fetchedRepos,
                 timestampText, clickVars, fetchCalls, fetchOutcome,
                 fetchMessage, stampedAt, fetchedAt, cacheAtStart,
                 timestampAtStart, apiVars, rankVars>>
  /\ AfterRender

\* lines 282-288: getAuthenticated returns or throws, the failure is
\* swallowed
LoadGetAuthenticatedCached ==
  /\ loadPc = "getAuthenticatedCached"
  /\ loadPc' = "isCacheValidCached"
  /\ UNCHANGED <<storeVars, repositories, sortedRepositories, isLoading,
                 error, times, cachedRepos, cacheValid, fetchedRepos,
                 timestampText, clickVars, fetchCalls, fetchOutcome,
                 fetchMessage, cacheShown, readFailed, stampedAt, fetchedAt,
                 cacheAtStart, timestampAtStart, apiVars, rankVars>>
  /\ AfterRender

\* lines 292-295: a valid cache stops the loading indicator
LoadIsCacheValidCached ==
  /\ loadPc = "isCacheValidCached"
  /\ isLoading' = IF isCacheValid THEN FALSE ELSE isLoading
  /\ loadPc' = "isCacheValid"
  /\ UNCHANGED <<storeVars, repositories, sortedRepositories, error, times,
                 cachedRepos, cacheValid, fetchedRepos, timestampText,
                 clickVars, histVars, apiVars, rankVars>>
  /\ AfterRender

\* lines 299-303: fetch unless the cache is present and valid
LoadIsCacheValid ==
  /\ loadPc = "isCacheValid"
  /\ cacheValid' = isCacheValid
  /\ IF ~isCacheValid \/ cachedRepos.isNull
       THEN /\ error' = null
            /\ fetchCalls' = fetchCalls + 1
            /\ loadPc' = "fetchRepositories"
            /\ UNCHANGED isLoading
       ELSE /\ Finally
            /\ UNCHANGED <<error, fetchCalls>>
  /\ UNCHANGED <<storeVars, repositories, sortedRepositories, times,
                 cachedRepos, fetchedRepos, timestampText, clickVars,
                 fetchOutcome, fetchMessage, cacheShown, readFailed,
                 stampedAt, fetchedAt, cacheAtStart, timestampAtStart,
                 apiVars, rankVars>>
  /\ AfterRender

\* line 303: fetchRepositories resolves with the repositories
LoadFetchSucceeds ==
  /\ loadPc = "fetchRepositories"
  /\ \E r \in FetchResults : fetchedRepos' = r
  /\ fetchOutcome' = "ok"
  /\ loadPc' = "setCachedRepositories"
  /\ UNCHANGED <<storeVars, uiVars, times, cachedRepos, cacheValid,
                 timestampText, clickVars, stampedAt, fetchCalls,
                 fetchMessage, cacheShown, readFailed, fetchedAt,
                 cacheAtStart, timestampAtStart, apiVars, rankVars>>
  /\ AfterRender

\* variant: a failed fetch drops the cache entry
LoadFetchFailsClearingCache ==
  /\ loadPc = "fetchRepositories"
  /\ \E e \in FetchErrors :
       /\ Catch(handleGitHubError(e))
       /\ fetchMessage' = handleGitHubError(e)
  /\ fetchOutcome' = "failed"
  /\ LocalStorage' = [LocalStorage EXCEPT ![CACHE_KEY] = Absent,
                                          ![CACHE_TIMESTAMP_KEY] = Absent]
  /\ UNCHANGED <<clock, ticks, repositories, sortedRepositories, isLoading,
                 times, cachedRepos, cacheValid, fetchedRepos, timestampText,
                 clickVars, fetchCalls, cacheShown, readFailed, stampedAt,
                 fetchedAt, cacheAtStart, timestampAtStart, apiVars,
                 rankVars>>
  /\ AfterRender

\* line 303: fetchRepositories throws handleGitHubError(error)
LoadFetchFails ==
  /\ loadPc = "fetchRepositories"
  /\ \E e \in FetchErrors :
       /\ Catch(handleGitHubError(e))
       /\ fetchMessage' = handleGitHubError(e)
  /\ fetchOutcome' = "failed"
  /\ UNCHANGED <<storeVars, repositories, sortedRepositories, isLoading,
                 times, cachedRepos, cacheValid, fetchedRepos, timestampText,
                 clickVars, fetchCalls, cacheShown, readFailed, stampedAt,
                 fetchedAt, cacheAtStart, timestampAtStart, apiVars,
                 rankVars>>
  /\ AfterRender

\* line 231: LocalStorage.setItem(CACHE_KEY, JSON.stringify(repos)) is done;
\* line 232 evaluates Date.now().toString() and calls the second setItem
LoadSetCachedRepositories ==
  /\ loadPc = "setCachedRepositories"
  /\ LocalStorage' = [LocalStorage EXCEPT
                        ![CACHE_KEY] = Text(stringifyRepositories(fetchedRepos))]
  /\ timestampText' = toString(clock)
  /\ stampedAt' = clock
  /\ loadPc' = "setCacheTimestamp"
  /\ UNCHANGED <<clock, ticks, uiVars, times, cachedRepos, cacheValid,
                 fetchedRepos, clickVars, fetchCalls, fetchOutcome,
                 fetchMessage, cacheShown, readFailed, fetchedAt,
                 cacheAtStart, timestampAtStart, apiVars, rankVars>>
  /\ AfterRender

\* line 232: LocalStorage.setItem(CACHE_TIMESTAMP_KEY, ...) is done,
\* then lines 308-314: display the fetched repositories
LoadSetCacheTimestamp ==
  /\ loadPc = "setCacheTimestamp"
  /\ LocalStorage' = [LocalStorage EXCEPT
                        ![CACHE_TIMESTAMP_KEY] = Text(timestampText)]
  /\ fetchedAt' = stampedAt
  /\ timestampText' = <<>>
  /\ repositories' = fetchedRepos
  /\ sortedRepositories' = sortRepositoriesByAccess(fetchedRepos, times)
  /\ IF Len(fetchedRepos) > 0
       THEN /\ loadPc' = "getAuthenticated"
            /\ UNCHANGED isLoading
       ELSE Finally
  /\ UNCHANGED <<clock, ticks, error, times, cachedRepos, cacheValid,
                 fetchedRepos, clickVars, fetchCalls, fetchOutcome,
                 fetchMessage, cacheShown, readFailed, stampedAt,
                 cacheAtStart, timestampAtStart, apiVars, rankVars>>
  /\ AfterRender

\* lines 315-316: getAuthenticated returns, or throws into the catch of the
\* load
LoadGetAuthenticated ==
  /\ loadPc = "getAuthenticated"
  /\ \E ok \in BOOLEAN :
       IF ok
         THEN /\ Finally
              /\ UNCHANGED error
         ELSE /\ Catch(UserErrorMessage)
              /\ UNCHANGED isLoading
  /\ UNCHANGED <<storeVars, repositories, sortedRepositories, times,
                 cachedRepos, cacheValid, fetchedRepos, timestampText,
                 clickVars, fetchCalls, fetchOutcome, fetchMessage,
                 cacheShown, readFailed, stampedAt, fetchedAt, cacheAtStart,
                 timestampAtStart, apiVars, rankVars>>
  /\ AfterRender

\* lines 323-330: showToast returns, then the finally block
LoadShowToast ==
  /\ loadPc = "showToast"
  /\ Finally
  /\ UNCHANGED <<storeVars, repositories, sortedRepositories, error, times,
                 cachedRepos, cacheValid, fetchedRepos, timestampText,
                 clickVars, histVars, apiVars, rankVars>>
  /\ AfterRender

(***************************************************************************)
(* The rendered view (lines 372-425)                                       *)
(***************************************************************************)
Render ==
  IF error # null /\ error # "" THEN "Errored"
  ELSE IF Len(sortedRepositories) = 0 /\ ~isLoading THEN "Empty"
  ELSE "List"

DisplayedIds ==
  IF Render = "List"
    THEN {sortedRepositories[k].id : k \in 1..Len(sortedRepositories)}
    ELSE {}

(***************************************************************************)
(* handleRepositoryClick (lines 336-341) and updateAccessTime (218-222)    *)
(***************************************************************************)
\* onOpen / onCopy of a displayed item: the handler of the current render
\* is called and awaits the getItem of updateAccessTime
ClickStart(i, repoId) ==
  /\ clicksStarted < MaxClicks
  /\ clickPc[i] = "idle"
  /\ \A j \in Clicks : j < i => clickPc[j] # "idle"
  /\ repoId \in DisplayedIds
  /\ clicksStarted' = clicksStarted + 1
  /\ clickPc' = [clickPc EXCEPT ![i] = "getAccessTimes"]
  /\ clickRepoId' = [clickRepoId EXCEPT ![i] = repoId]
  /\ clickRepositories' = [clickRepositories EXCEPT ![i] = repositories]
  /\ UNCHANGED <<storeVars, uiVars, loadVars, clickAccessTimes, lastClicked,
                 histVars, apiVars, rankVars>>
  /\ AfterRender

\* variant: the mapping that is written back holds the entry of repoId only
ClickGetAccessTimesOwnOnly(i) ==
  /\ clickPc[i] = "getAccessTimes"
  /\ IF LocalStorage[STORAGE_KEY] = Corrupt
       THEN /\ clickPc' = [clickPc EXCEPT ![i] = "idle"]
            /\ clickRepoId' = [clickRepoId EXCEPT ![i] = ""]
            /\ clickRepositories' = [clickRepositories EXCEPT ![i] = <<>>]
            /\ UNCHANGED clickAccessTimes
       ELSE /\ clickAccessTimes' =
                 [clickAccessTimes EXCEPT ![i] =
                    [id \in {clickRepoId[i]} |-> clock]]
            /\ clickPc' = [clickPc EXCEPT ![i] = "setItem"]
            /\ UNCHANGED <<clickRepoId, clickRepositories>>
  /\ UNCHANGED <<storeVars, uiVars, loadVars, clicksStarted, lastClicked,
                 histVars, apiVars, rankVars>>
  /\ AfterRender

\* lines 219-220: accessTimes = await getAccessTimes();
\* accessTimes[repoId] = Date.now()
ClickGetAccessTimes(i) ==
  /\ clickPc[i] = "getAccessTimes"
  /\ IF LocalStorage[STORAGE_KEY] = Corrupt
       THEN \* JSON.parse throws: the invocation is over
            /\ clickPc' = [clickPc EXCEPT ![i] = "idle"]
            /\ clickRepoId' = [clickRepoId EXCEPT ![i] = ""]
            /\ clickRepositories' = [clickRepositories EXCEPT ![i] = <<>>]
            /\ UNCHANGED clickAccessTimes
       ELSE LET accessTimes == getAccessTimes
                ids == DOMAIN accessTimes \cup {clickRepoId[i]}
            IN  /\ clickAccessTimes' =
                     [clickAccessTimes EXCEPT ![i] =
                        [id \in ids |-> IF id = clickRepoId[i] THEN clock
                                        ELSE accessTimes[id]]]
                /\ clickPc' = [clickPc EXCEPT ![i] = "setItem"]
                /\ UNCHANGED <<clickRepoId, clickRepositories>>
  /\ UNCHANGED <<storeVars, uiVars, loadVars, clicksStarted, lastClicked,
                 histVars, apiVars, rankVars>>
  /\ AfterRender

\* line 221: LocalStorage.setItem(STORAGE_KEY, JSON.stringify(accessTimes));
\* updateAccessTime returns, its local is gone
ClickSetItem(i) ==
  /\ clickPc[i] = "setItem"
  /\ LocalStorage' = [LocalStorage EXCEPT
                        ![STORAGE_KEY] =
                          Text(stringifyAccessTimes(clickAccessTimes[i]))]
  /\ clickAccessTimes' = [clickAccessTimes EXCEPT ![i] = <<>>]
  /\ clickPc' = [clickPc EXCEPT ![i] = "reread"]
  /\ UNCHANGED <<clock, ticks, uiVars, loadVars, clicksStarted, lastClicked,
                 clickRepoId, clickRepositories, histVars, apiVars, rankVars>>
  /\ AfterRender

\* lines 338-340: re-read the ledger and re-sort the held repositories;
\* the invocation is over, its closure and locals are gone
ClickReread(i) ==
  /\ clickPc[i] = "reread"
  /\ LET updatedTimes == getAccessTimes
     IN  sortedRepositories' =
           sortRepositoriesByAccess(clickRepositories[i], updatedTimes)
  /\ clickPc' = [clickPc EXCEPT ![i] = "idle"]
  /\ clickRepoId' = [clickRepoId EXCEPT ![i] = ""]
  /\ clickRepositories' = [clickRepositories EXCEPT ![i] = <<>>]
  /\ clickAccessTimes' = [clickAccessTimes EXCEPT ![i] = <<>>]
  /\ lastClicked' = clickRepoId[i]
  /\ UNCHANGED <<storeVars, repositories, isLoading, error, loadVars,
                 clicksStarted, histVars, apiVars, rankVars>>
  /\ AfterRender

\* Date.now() is read next by one of these steps
ReadsClockNext ==
  \/ loadPc \in {"isCacheValidCached", "isCacheValid", "setCachedRepositories"}
  \/ \E i \in Clicks : clickPc[i] = "getAccessTimes"

\* time passes; an advance of the clock shows only at the next Date.now(),
\* so the clock advances when a step that reads it is due
Tick ==
  /\ ticks < MaxTicks
  /\ ReadsClockNext
  /\ \E k \in (ticks + 1)..MaxTicks :
       /\ ticks' = k
       /\ clock' = Instant(k)
  /\ UNCHANGED <<LocalStorage, uiVars, loadVars, clickVars, histVars,
                 renderVars, apiVars, rankVars>>

Next ==
  \/ LoadGetAccessTimes
  \/ LoadGetCachedRepositories
  \/ LoadGetAuthenticatedCached
  \/ LoadIsCacheValidCached
  \/ LoadIsCacheValid
  \/ LoadFetchSucceeds
  \/ LoadFetchFails
  \/ LoadSetCachedRepositories
  \/ LoadSetCacheTimestamp
  \/ LoadGetAuthenticated
  \/ LoadShowToast
  \/ \E i \in Clicks, repoId \in Ids : ClickStart(i, repoId)
  \/ \E i \in Clicks : ClickGetAccessTimes(i)
  \/ \E i \in Clicks : ClickSetItem(i)
  \/ \E i \in Clicks : ClickReread(i)
  \/ Tick

Spec == Init /\ [][Next]_vars

(***************************************************************************)
(* The ranking specification: sortRepositoriesByAccess applied to every    *)
(* repository sequence with unique ids and every access mapping within the *)
(* bounds.  The command itself stays in its initial state.                 *)
(***************************************************************************)
\* ids that an access mapping may hold: those of the repositories and one
\* of a repository that is no longer listed
LedgerIds == Ids \cup {"4"}

RankRepoLists ==
  UNION { { [i \in 1..n |-> Repo(ids[i], scores[i])] :
              ids \in {f \in [1..n -> Ids] :
                         \A i, j \in 1..n : i # j => f[i] # f[j]},
              scores \in [1..n -> 0..MaxScore] } : n \in 0..Cardinality(Ids) }

RankAccessTimes ==
  UNION { [D -> 0..MaxRankTime] : D \in SUBSET LedgerIds }

InitRank ==
  /\ InitCommand
  /\ LocalStorage = Stored(Absent, Absent, NoTime).store
  /\ fetchedAt = NoTime
  /\ cacheAtStart = Absent
  /\ timestampAtStart = Absent
  /\ apiRepos = <<>>
  /\ apiError = NoFailure
  /\ rankRepos \in RankRepoLists
  /\ rankTimes \in RankAccessTimes
  /\ rankOut = <<>>
  /\ rankDone = FALSE

Rank ==
  /\ ~rankDone
  /\ rankOut' = sortRepositoriesByAccess(rankRepos, rankTimes)
  /\ rankDone' = TRUE
  /\ UNCHANGED <<storeVars, uiVars, loadVars, clickVars, histVars, renderVars,
                 apiVars, rankRepos, rankTimes>>

NextRank == Rank

SpecRank == InitRank /\ [][NextRank]_vars

(***************************************************************************)
(* Properties                                                              *)
(***************************************************************************)
\* the durable ledger as a mapping
Ledger == getAccessTimes

NoClickInFlight == \A i \in Clicks : clickPc[i] = "idle"

\* the access timestamp of a repository under a mapping, absent counting as 0
AccessTimestamp(accessTimes, id) ==
  IF id \in DOMAIN accessTimes THEN accessTimes[id] ELSE 0

\* repository a of the input is placed before repository b in the output
RankedBefore(a, b) ==
  \E i, j \in 1..Len(rankOut) :
    /\ i < j
    /\ rankOut[i] = rankRepos[a]
    /\ rankOut[j] = rankRepos[b]

\* C1: overlapping recordAccess calls lose no update: the write of a call
\* changes the entry of its own id only, every entry that the durable ledger
\* holds for another id is still there, unchanged, after the write.
NoLostUpdate ==
  [][\A i \in Clicks :
       clickPc[i] = "setItem" /\ clickPc'[i] = "reread" =>
         \A id \in DOMAIN Ledger \ {clickRepoId[i]} :
           /\ id \in DOMAIN Ledger'
           /\ Ledger'[id] = Ledger[id]]_vars

\* C2: there is no state in which the cached repositories are displayed, the
\* fetch is in flight and the loading indicator is still on.
StaleCacheShownWithoutLoading ==
  ~(loadPc = "fetchRepositories" /\ cacheShown /\ isLoading)

\* C3: a load in which reading the ledger or the cache failed still calls
\* the fetch, and when the fetch succeeded it ends with the fetched
\* repositories displayed and no error.
SoftFailOnLocalReads ==
  loadPc = "done" /\ readFailed =>
    /\ fetchCalls = 1
    /\ fetchOutcome = "ok" =>
         /\ Render # "Errored"
         /\ repositories = fetchedRepos

\* C4: a repository with a strictly greater access timestamp (absent = 0)
\* is placed before one with a smaller timestamp, whatever their usageScore.
RankPrimaryOrder ==
  rankDone =>
    \A a, b \in 1..Len(rankRepos) :
      AccessTimestamp(rankTimes, rankRepos[a].id)
        > AccessTimestamp(rankTimes, rankRepos[b].id)
      => RankedBefore(a, b)

\* C4 witness: ranked, a repository with the greater timestamp but the
\* smaller usageScore came after the other one in the input
RankPrimaryOrderWitness ==
  /\ rankDone
  /\ \E a, b \in 1..Len(rankRepos) :
       /\ b < a
       /\ AccessTimestamp(rankTimes, rankRepos[a].id)
            > AccessTimestamp(rankTimes, rankRepos[b].id)
       /\ AccessTimestamp(rankTimes, rankRepos[b].id) > 0
       /\ rankRepos[a].usageScore < rankRepos[b].usageScore
       /\ RankedBefore(a, b)

\* C5: of two repositories with equal access timestamps the one with the
\* greater usageScore is placed first; with equal usageScore too they keep
\* their order of the input.
RankSecondaryOrder ==
  rankDone =>
    \A a, b \in 1..Len(rankRepos) :
      ( /\ a < b
        /\ AccessTimestamp(rankTimes, rankRepos[a].id)
             = AccessTimestamp(rankTimes, rankRepos[b].id) )
      => IF rankRepos[b].usageScore > rankRepos[a].usageScore
           THEN RankedBefore(b, a)
           ELSE RankedBefore(a, b)

\* C5 witness: ranked, with a tie on both keys and a pair that only the
\* usageScore orders
RankSecondaryOrderWitness ==
  /\ rankDone
  /\ \E a, b, c \in 1..Len(rankRepos) :
       /\ a < b /\ b < c
       /\ AccessTimestamp(rankTimes, rankRepos[a].id)
            = AccessTimestamp(rankTimes, rankRepos[b].id)
       /\ AccessTimestamp(rankTimes, rankRepos[b].id)
            = AccessTimestamp(rankTimes, rankRepos[c].id)
       /\ rankRepos[a].usageScore = rankRepos[b].usageScore
       /\ rankRepos[c].usageScore > rankRepos[a].usageScore
       /\ RankedBefore(a, b) /\ RankedBefore(c, a)

\* C6: the output of the ranking is a permutation of its input: the same
\* length, every id of the input exactly once.
RankIsPermutation ==
  rankDone =>
    /\ Len(rankOut) = Len(rankRepos)
    /\ \A a \in 1..Len(rankRepos) :
         Cardinality({i \in 1..Len(rankOut) : rankOut[i] = rankRepos[a]}) = 1

\* C6 witness: ranked three repositories under a mapping that also holds an
\* id that is not listed, and the order changed
RankIsPermutationWitness ==
  /\ rankDone
  /\ Len(rankRepos) = 3
  /\ \E id \in DOMAIN rankTimes :
       \A a \in 1..Len(rankRepos) : rankRepos[a].id # id
  /\ rankOut # rankRepos

\* C7: the cache is valid exactly when a timestamp has been stored and less
\* than CACHE_DURATION has passed since the Date.now() that was stored.
CacheValidIffWithinWindow ==
  isCacheValid <=> (fetchedAt # NoTime /\ clock - fetchedAt < CACHE_DURATION)

\* C7 witness: the load has stored its timestamp and the cache is one
\* millisecond short of the end of the window, still valid
CacheValidWitness ==
  /\ fetchOutcome = "ok"
  /\ fetchedAt = stampedAt
  /\ clock - fetchedAt = CACHE_DURATION - 1
  /\ isCacheValid

\* C8: a load calls the fetch if and only if the cache is absent or not
\* fresh; with a present, fresh cache it ends with the cached repositories
\* displayed and no call of fetchRepositories.
CacheReadable == cacheAtStart # Absent /\ cacheAtStart # Corrupt

FetchIffAbsentOrStale ==
  loadPc = "done" =>
    /\ fetchCalls >= 1 => (~CacheReadable \/ ~cacheValid)
    /\ fetchCalls = 0 =>
         /\ CacheReadable
         /\ fetchedAt # NoTime
         /\ StartTime - fetchedAt < CACHE_DURATION
         /\ repositories = parseRepositories(cacheAtStart.text)

\* C9: after a successful fetch the load ends with the fetched set stored
\* as the cache, the ranked fetched repositories displayed, no error and the
\* loading indicator off, whatever the identity lookup did.
FetchSuccessShowsFresh ==
  ( /\ loadPc = "done"
    /\ fetchOutcome = "ok"
    /\ clicksStarted = 0 )
  => /\ LocalStorage[CACHE_KEY] = Text(stringifyRepositories(fetchedRepos))
     /\ sortedRepositories = sortRepositoriesByAccess(fetchedRepos, times)
     /\ error = null
     /\ Render # "Errored"
     /\ ~isLoading

\* C10: after a failed fetch the load ends in the error view with the
\* message of the failure, also when the cached repositories were displayed.
FetchFailureErrored ==
  fetchOutcome = "failed" =>
    /\ error = fetchMessage
    /\ Render = "Errored"
    /\ loadPc = "done" => ~isLoading

\* C10 witness: the load is over, the fetch failed after the cached
\* repositories had been displayed
FetchFailureErroredWitness ==
  /\ loadPc = "done"
  /\ fetchOutcome = "failed"
  /\ cacheShown
  /\ Len(sortedRepositories) > 0
  /\ Render = "Errored"

\* C11: a failed fetch leaves the durable cache unchanged: from the failure
\* on, the stored repository sequence and the stored fetch timestamp are
\* the ones the load found.
FailedFetchKeepsCache ==
  fetchOutcome = "failed" =>
    /\ LocalStorage[CACHE_KEY] = cacheAtStart
    /\ LocalStorage[CACHE_TIMESTAMP_KEY] = timestampAtStart

\* C11 witness: the load is over, its fetch failed, there was a cache entry
\* and the user has recorded an access since
FailedFetchKeepsCacheWitness ==
  /\ loadPc = "done"
  /\ fetchOutcome = "failed"
  /\ cacheAtStart # Absent /\ cacheAtStart # Corrupt
  /\ timestampAtStart # Absent
  /\ clicksStarted > 0
  /\ LocalStorage[CACHE_KEY] = cacheAtStart

\* C12: the cache entry is replaced wholesale: in every state the stored
\* repository sequence and the stored timestamp come from the same write,
\* or both are absent.
CacheEntryWhole ==
  IF stampedAt = NoTime
    THEN \* nothing written in this run: the entry of a previous run
         LocalStorage[CACHE_KEY] = Absent
           <=> LocalStorage[CACHE_TIMESTAMP_KEY] = Absent
    ELSE \* the repositories of this run's write: the stored timestamp is
         \* the Date.now() of that write
         fetchedAt = stampedAt

\* C13: when a handleRepositoryClick invocation completes, the displayed
\* list is the ranking of the repositories the component holds now under
\* the ledger as re-read; no step of the invocation calls the fetch or
\* changes the cache.
ReRankOnInteraction ==
  [][\A i \in Clicks :
       clickPc'[i] # clickPc[i] =>
         /\ fetchCalls' = fetchCalls
         /\ LocalStorage'[CACHE_KEY] = LocalStorage[CACHE_KEY]
         /\ LocalStorage'[CACHE_TIMESTAMP_KEY]
              = LocalStorage[CACHE_TIMESTAMP_KEY]
         /\ clickPc[i] = "reread" =>
              sortedRepositories'
                = sortRepositoriesByAccess(repositories', Ledger')]_vars

ClickStartAlone(i, repoId) ==
  /\ NoClickInFlight
  /\ ClickStart(i, repoId)

NextSequential ==
  \/ LoadGetAccessTimes
  \/ LoadGetCachedRepositories
  \/ LoadGetAuthenticatedCached
  \/ LoadIsCacheValidCached
  \/ LoadIsCacheValid
  \/ LoadFetchSucceeds
  \/ LoadFetchFails
  \/ LoadSetCachedRepositories
  \/ LoadSetCacheTimestamp
  \/ LoadGetAuthenticated
  \/ LoadShowToast
  \/ \E i \in Clicks, repoId \in Ids : ClickStartAlone(i, repoId)
  \/ \E i \in Clicks : ClickGetAccessTimes(i)
  \/ \E i \in Clicks : ClickSetItem(i)
  \/ \E i \in Clicks : ClickReread(i)
  \/ Tick

SpecSequential == Init /\ [][NextSequential]_vars

\* C15: with no overlapping operation, updateAccessTime(id) gives id the
\* Date.now() it read, and the getAccessTimes() that follows its write
\* returns the mapping of before with that one entry set: no other entry
\* added, changed or removed.
RecordAccessThenGetAll ==
  [][\A i \in Clicks :
       /\ clickPc[i] = "getAccessTimes" /\ clickPc'[i] = "setItem" =>
            clickAccessTimes'[i][clickRepoId[i]] = clock
       /\ clickPc[i] = "setItem" /\ clickPc'[i] = "reread" =>
            Ledger' = [id \in DOMAIN Ledger \cup {clickRepoId[i]} |->
                         IF id = clickRepoId[i]
                           THEN clickAccessTimes[i][clickRepoId[i]]
                           ELSE Ledger[id]]]_vars

\* C15 witness: the second action of the run has written the ledger, which
\* holds its entry, stamped now, next to the entry of another repository
RecordAccessThenGetAllWitness ==
  \E i \in Clicks :
    /\ clickPc[i] = "reread"
    /\ clicksStarted = 2
    /\ Cardinality(DOMAIN Ledger) >= 2
    /\ Ledger[clickRepoId[i]] = clock

\* C16: the durable ledger grows monotonically: in every step an id that
\* has an entry keeps an entry, and its timestamp does not decrease.
LedgerReadable == LocalStorage[STORAGE_KEY] # Corrupt

LedgerMonotonic ==
  [][LedgerReadable =>
       /\ LedgerReadable'
       /\ \A id \in DOMAIN Ledger :
            /\ id \in DOMAIN Ledger'
            /\ Ledger'[id] >= Ledger[id]]_vars

(***************************************************************************)
(* Cold start: the first run of the command, nothing in LocalStorage, the  *)
(* fetch maps and sorts the response of the API.                           *)
(***************************************************************************)
InitColdStart ==
  /\ InitCommand
  /\ InitRankIdle
  /\ LocalStorage = Stored(Absent, Absent, NoTime).store
  /\ fetchedAt = NoTime
  /\ cacheAtStart = Absent
  /\ timestampAtStart = Absent
  /\ apiRepos \in ApiResponses
  /\ apiError = NoFailure

\* line 303: fetchRepositories resolves with the mapped, sorted response
LoadFetchFromApi ==
  /\ loadPc = "fetchRepositories"
  /\ fetchedRepos' = fetchRepositories(apiRepos, clock)
  /\ fetchOutcome' = "ok"
  /\ loadPc' = "setCachedRepositories"
  /\ UNCHANGED <<storeVars, uiVars, times, cachedRepos, cacheValid,
                 timestampText, clickVars, stampedAt, fetchCalls,
                 fetchMessage, cacheShown, readFailed, fetchedAt,
                 cacheAtStart, timestampAtStart, apiVars, rankVars>>
  /\ AfterRender

NextColdStart ==
  \/ LoadGetAccessTimes
  \/ LoadGetCachedRepositories
  \/ LoadIsCacheValid
  \/ LoadFetchFromApi
  \/ LoadSetCachedRepositories
  \/ LoadSetCacheTimestamp
  \/ LoadGetAuthenticated
  \/ LoadShowToast
  \/ Tick

SpecColdStart == InitColdStart /\ [][NextColdStart]_vars

\* stargazers_count of the repository of the response with this id
StarsOf(id) ==
  apiRepos[CHOOSE i \in 1..Len(apiRepos) : apiRepos[i].id = id].stargazers_count

\* all repositories of the response have the same updated_at and the same
\* pushed_at
EqualActivity ==
  \A i, j \in 1..Len(apiRepos) :
    /\ apiRepos[i].updated_at = apiRepos[j].updated_at
    /\ apiRepos[i].pushed_at = apiRepos[j].pushed_at

\* C17: cold start: once the load has displayed the fetched repositories of
\* a response whose updated_at / pushed_at are all equal, the list holds
\* every repository of the response, ordered by stars descending.
ColdStartStarsDescending ==
  ( /\ fetchOutcome = "ok"
    /\ loadPc \in {"getAuthenticated", "showToast", "done"}
    /\ EqualActivity )
  => /\ Len(sortedRepositories) = Len(apiRepos)
     /\ \A i, j \in 1..Len(sortedRepositories) :
          i < j => StarsOf(sortedRepositories[i].id)
                     >= StarsOf(sortedRepositories[j].id)

\* C17 witness: the load is over and the list is shown; the response gave
\* three repositories with stars 0, 1, 2 in this order, all updated and
\* pushed at the same time
ColdStartStarsDescendingWitness ==
  /\ loadPc = "done"
  /\ Render = "List"
  /\ EqualActivity
  /\ Len(apiRepos) = 3
  /\ \A i \in 1..3 : apiRepos[i].stargazers_count = i - 1
  /\ \A i \in 1..3 : sortedRepositories[i].id = apiRepos[4 - i].id

(***************************************************************************)
(* A load whose fetch fails: listForAuthenticatedUser throws, the catch of *)
(* fetchRepositories throws handleGitHubError(error) (lines 87-89) and the *)
(* catch of loadRepositories shows its message.                            *)
(***************************************************************************)
InitFailure ==
  /\ InitCommand
  /\ InitRankIdle
  /\ \E stored \in StoredStates :
       /\ LocalStorage = stored.store
       /\ fetchedAt = stored.at
       /\ cacheAtStart = stored.store[CACHE_KEY]
       /\ timestampAtStart = stored.store[CACHE_TIMESTAMP_KEY]
  /\ apiRepos = <<>>
  /\ apiError \in RawFailures

\* line 303: fetchRepositories throws handleGitHubError(apiError)
LoadFetchThrows ==
  /\ loadPc = "fetchRepositories"
  /\ Catch(handleGitHubError(apiError))
  /\ fetchMessage' = handleGitHubError(apiError)
  /\ fetchOutcome' = "failed"
  /\ UNCHANGED <<storeVars, repositories, sortedRepositories, isLoading,
                 times, cachedRepos, cacheValid, fetchedRepos, timestampText,
                 clickVars, fetchCalls, cacheShown, readFailed, stampedAt,
                 fetchedAt, cacheAtStart, timestampAtStart, apiVars,
                 rankVars>>
  /\ AfterRender

NextFailure ==
  \/ LoadGetAccessTimes
  \/ LoadGetCachedRepositories
  \/ LoadGetAuthenticatedCached
  \/ LoadIsCacheValidCached
  \/ LoadIsCacheValid
  \/ LoadFetchThrows
  \/ LoadShowToast
  \/ Tick

SpecFailure == InitFailure /\ [][NextFailure]_vars

\* the kind of failure a message of handleGitHubError stands for
KindOf(message) ==
  IF message = "Invalid GitHub token. Please check your credentials."
    THEN "AuthenticationError"
  ELSE IF message = "GitHub API rate limit exceeded. Please try again later."
    THEN "RateLimitError"
  ELSE IF message = "Unable to connect to GitHub. Please check your internet connection."
    THEN "NetworkError"
  ELSE IF message = "GitHub token is missing authorization for organizations that use SSO. Please re-authenticate to fix this."
    THEN "AuthorizationScopeError"
  ELSE "UnknownError"

\* the patterns of the four kinds that the thrown value holds
HoldsAuthentication(e) == "Bad credentials" \in e.includes
HoldsRateLimit(e) == "rate limit" \in e.includes
HoldsNetwork(e) == "ENOTFOUND" \in e.includes \/ "network" \in e.includes
HoldsAuthorizationScope(e) ==
  "Resource protected by organization SAML enforcement" \in e.includes

\* the kind is the one of the first pattern found, in the order
\* authentication, rate limit, network, authorization scope
KindByFirstMatch(e, kind) ==
  /\ kind = "AuthenticationError" <=> HoldsAuthentication(e)
  /\ kind = "RateLimitError" <=>
       HoldsRateLimit(e) /\ ~HoldsAuthentication(e)
  /\ kind = "NetworkError" <=>
       /\ HoldsNetwork(e)
       /\ ~HoldsRateLimit(e) /\ ~HoldsAuthentication(e)
  /\ kind = "AuthorizationScopeError" <=>
       /\ HoldsAuthorizationScope(e)
       /\ ~HoldsNetwork(e) /\ ~HoldsRateLimit(e) /\ ~HoldsAuthentication(e)
  /\ kind = "UnknownError" <=>
       /\ ~HoldsAuthorizationScope(e)
       /\ ~HoldsNetwork(e) /\ ~HoldsRateLimit(e) /\ ~HoldsAuthentication(e)

\* C18 as stated: every thrown value is classified by the first pattern it
\* holds, and one that holds none keeps its message.
ClassifiesEveryFailure ==
  fetchOutcome = "failed" =>
    /\ KindByFirstMatch(apiError, KindOf(fetchMessage))
    /\ KindOf(fetchMessage) = "UnknownError" =>
         fetchMessage = apiError.message

\* C18: every thrown Error is classified by the first pattern its message
\* holds, and one that holds none keeps its message; a thrown value that is
\* not an Error is unknown with the message "Unknown GitHub API error
\* occurred", whatever it holds.
ClassifiesEveryError ==
  fetchOutcome = "failed" =>
    IF apiError.isError
      THEN /\ KindByFirstMatch(apiError, KindOf(fetchMessage))
           /\ KindOf(fetchMessage) = "UnknownError" =>
                fetchMessage = apiError.message
      ELSE fetchMessage = "Unknown GitHub API error occurred"

\* C18 witness: the failed load shows the message of the first of two
\* patterns that the thrown Error holds
ClassifiesEveryErrorWitness ==
  /\ loadPc = "done"
  /\ fetchOutcome = "failed"
  /\ apiError.isError
  /\ HoldsNetwork(apiError) /\ HoldsAuthorizationScope(apiError)
  /\ KindOf(error) = "NetworkError"

\* ids of the repositories the component holds
HeldIds == {repositories[k].id : k \in 1..Len(repositories)}

\* C19: once handleRepositoryClick for a repository has returned and no
\* other invocation and no load is running, the repository, if the list
\* shown still holds it, is the first item of the list.
MostRecentlyTouchedFirst ==
  ( /\ lastClicked # ""
    /\ NoClickInFlight
    /\ loadPc = "done"
    /\ Render = "List"
    /\ lastClicked \in HeldIds )
  => /\ Len(sortedRepositories) > 0
     /\ sortedRepositories[1].id = lastClicked

\* C20: once the load and every user action have completed without error,
\* the list shown is the ranking of the held repositories under the durable
\* ledger.
DisplayFollowsLedger ==
  ( /\ loadPc = "done"
    /\ NoClickInFlight
    /\ error = null
    /\ LedgerReadable )
  => sortedRepositories = sortRepositoriesByAccess(repositories, Ledger)

(***************************************************************************)
(* The command when every call that loadRepositories awaits returns, with  *)
(* a value or a failure: a step of the load that is due is taken.  User    *)
(* actions and the clock are under no such obligation.                     *)
(***************************************************************************)
\* the continuation of loadRepositories after the call it awaits
LoadStep ==
  \/ LoadGetAccessTimes
  \/ LoadGetCachedRepositories
  \/ LoadGetAuthenticatedCached
  \/ LoadIsCacheValidCached
  \/ LoadIsCacheValid
  \/ LoadFetchSucceeds
  \/ LoadFetchFails
  \/ LoadSetCachedRepositories
  \/ LoadSetCacheTimestamp
  \/ LoadGetAuthenticated
  \/ LoadShowToast

SpecLive == Init /\ [][NextSequential]_vars /\ WF_vars(LoadStep)

\* C21: when every awaited call returns, the load ends and from some point
\* on the loading indicator is off for good.
LoadEndsNotLoading == <>[](loadPc = "done" /\ ~isLoading)

\* C21 witness: a load whose read of the store failed is over, after the
\* toast, with the indicator off
LoadEndsNotLoadingWitness ==
  /\ loadPc = "done"
  /\ ~isLoading
  /\ readFailed
  /\ error # null

====
